---------------------------- MODULE Spec2Model ----------------------------
(***************************************************************************)
(* Model of rustysd's configuration loader, src/src/config.rs.             *)
(*                                                                         *)
(* load_config(config_path) reads up to two files of a base directory     *)
(* (rustysd_config.json, rustysd_config.toml), overlays the RUSTYSD_*      *)
(* environment variables and builds (LoggingConfig, Result<Config,String>).*)
(*                                                                         *)
(* Representation of the program's data:                                   *)
(*   - an environment variable NAME and a settings KEY are sequences of    *)
(*     one-character strings, because the code splits, lower-cases and     *)
(*     joins them character by character;                                  *)
(*   - a PATH string is the sequence of its "/"-separated segments         *)
(*     ("./config/" is <<".", "config", "">>, "/opt" is <<"", "opt">>,     *)
(*     "" is <<"">>); PathBuf::join, PathBuf's == and exists() are         *)
(*     modelled on that;                                                   *)
(*   - Option and Result values are records with a "tag" field.            *)
(***************************************************************************)
EXTENDS Integers, Sequences, FiniteSets, TLC

(***************************************************************************)
(* Bounds of the model.                                                    *)
(***************************************************************************)
\* longest unit_dirs array a configuration file holds
MaxArr == 2
\* largest number of environment variables of the process
MaxEnv == 2

(***************************************************************************)
(* Strings as character sequences: str::split('_'), to_lowercase, join(".")*)
(***************************************************************************)
LowerOf == [A |-> "a", B |-> "b", C |-> "c", D |-> "d", E |-> "e", F |-> "f",
            G |-> "g", H |-> "h", I |-> "i", J |-> "j", K |-> "k", L |-> "l",
            M |-> "m", N |-> "n", O |-> "o", P |-> "p", Q |-> "q", R |-> "r",
            S |-> "s", T |-> "t", U |-> "u", V |-> "v", W |-> "w", X |-> "x",
            Y |-> "y", Z |-> "z"]

\* char::to_lowercase on one character
lower_char(c) == IF c \in DOMAIN LowerOf THEN LowerOf[c] ELSE c

\* str::to_lowercase
to_lowercase(s) == [i \in 1..Len(s) |-> lower_char(s[i])]

\* str::split(sep): the pieces between the separators; always at least one
\* piece ("" splits into the single piece "")
RECURSIVE split(_, _)
split(s, sep) ==
    IF s = <<>> THEN << <<>> >>
    ELSE LET r == split(SubSeq(s, 1, Len(s) - 1), sep)
             c == s[Len(s)]
         IN  IF c = sep THEN Append(r, <<>>)
             ELSE [r EXCEPT ![Len(r)] = Append(@, c)]

\* [String]::join(sep): no pieces give "", one piece gives itself
RECURSIVE join(_, _)
join(parts, sep) ==
    IF parts = <<>> THEN <<>>
    ELSE IF Len(parts) = 1 THEN parts[1]
    ELSE parts[1] \o <<sep>> \o join(Tail(parts), sep)

\* Vec::remove(0)
remove_first(v) == Tail(v)

\* the literal "rustysd" the first segment is compared with
PREFIX == <<"r", "u", "s", "t", "y", "s", "d">>

\* the three keys load_config reads back from the settings
LOGGING_DIR_KEY == <<"l", "o", "g", "g", "i", "n", "g", ".", "d", "i", "r">>
NOTIFICATIONS_DIR_KEY ==
    <<"n", "o", "t", "i", "f", "i", "c", "a", "t", "i", "o", "n", "s", ".",
      "d", "i", "r">>
UNIT_DIRS_KEY == <<"u", "n", "i", "t", ".", "d", "i", "r", "s">>

(***************************************************************************)
(* Paths.                                                                  *)
(***************************************************************************)
\* PathBuf::from(String): the same bytes, seen as a path
PathFrom(s) == s

\* Path::is_absolute / has_root
has_root(p) == Len(p) > 1 /\ p[1] = ""

\* PathBuf::join: an absolute argument replaces the path, otherwise it is
\* appended after a separator (none is added after a trailing "/" or to "")
path_join(base, rel) ==
    IF has_root(rel) THEN rel
    ELSE IF base[Len(base)] = "" THEN SubSeq(base, 1, Len(base) - 1) \o rel
    ELSE base \o rel

\* Path::components: the root, then the segments without the empty ones
\* (repeated or trailing "/") and without "." except a leading one
RECURSIVE components_from(_, _)
components_from(p, i) ==
    IF i > Len(p) THEN <<>>
    ELSE IF p[i] = "" \/ (p[i] = "." /\ i > 1) THEN components_from(p, i + 1)
    ELSE <<p[i]>> \o components_from(p, i + 1)

components(p) ==
    IF has_root(p) THEN <<"/">> \o components_from(p, 2)
    ELSE components_from(p, 1)

\* PathBuf's ==  compares the components, not the bytes
path_eq(p, q) == components(p) = components(q)

\* the file a path names, as the file system resolves it from the working
\* directory: a leading "." is the working directory itself
NotCurDir(c) == c # "."
resolve(p) == SelectSeq(components(p), NotCurDir)

\* Path::exists on a file system `disk` (the set of resolved names that
\* exist); the empty path names nothing
path_exists(p, disk) == p # <<"">> /\ resolve(p) \in disk


(***************************************************************************)
(* Option / Result / SettingValue / HashMap.                               *)
(***************************************************************************)
None == [tag |-> "None"]
Some(v) == [tag |-> "Some", v |-> v]
Ok(v) == [tag |-> "Ok", v |-> v]
Err(e) == [tag |-> "Err", e |-> e]
Unit == "()"

\* Option::unwrap_or_else
unwrap_or_else(opt, default) == IF opt.tag = "Some" THEN opt.v ELSE default

\* enum SettingValue
Str(s) == [tag |-> "Str", s |-> s]
Array(v) == [tag |-> "Array", arr |-> v]

\* HashMap::new and HashMap::insert (a later insert under a key replaces
\* the earlier value)
EmptyMap == <<>>
insert(m, k, v) == [x \in (DOMAIN m) \cup {k} |-> IF x = k THEN v ELSE m[x]]

(***************************************************************************)
(* The world the call reads: file contents, file system, arguments.        *)
(***************************************************************************)
\* nodes of a decoded document (serde_json::Value / toml::Value)
StringNode(s) == [kind |-> "String", s |-> s]
IntegerNode == [kind |-> "Integer"]
ArrayNode(elems) == [kind |-> "Array", elems |-> elems]
TableNode(map) == [kind |-> "Table", map |-> map]
Absent == [kind |-> "Absent"]

\* directories a unit_dirs entry may name ("a", "b")
UnitA == <<"a">>
UnitB == <<"b">>
\* the scalar values the files hold ("/file/log", "/file/notif")
FileLogDir == <<"", "file", "log">>
FileNotifDir == <<"", "file", "notif">>

ArrayElems == {StringNode(UnitA), StringNode(UnitB), IntegerNode}
Arrays == UNION {[1..n -> ArrayElems] : n \in 0..MaxArr}

\* what a file may hold under each recognised key: nothing, a node of the
\* expected kind, or a node of another kind
UnitDirsNodes == {Absent, StringNode(UnitA)} \cup {ArrayNode(a) : a \in Arrays}
LoggingDirNodes == {Absent, StringNode(FileLogDir), IntegerNode}
NotificationsDirNodes == {Absent, StringNode(FileNotifDir), IntegerNode}

MkMap(u, l, n) ==
    LET val == [unit_dirs |-> u, logging_dir |-> l, notifications_dir |-> n]
        keys == {k \in DOMAIN val : val[k] # Absent}
    IN  [k \in keys |-> val[k]]

\* decoded documents: a table at top level, or something else
Roots == {TableNode(MkMap(u, l, n)) :
            u \in UnitDirsNodes, l \in LoggingDirNodes, n \in NotificationsDirNodes}
         \cup {ArrayNode(<<>>)}

\* what opening and decoding a file that exists gives
FileContents == {[tag |-> "OpenErr", e |-> "Permission denied"],
                 [tag |-> "DecodeErr", e |-> "expected value"]}
                \cup {[tag |-> "Doc", root |-> r] : r \in Roots}

\* load_toml reads the file into a String and unwraps the result: bytes
\* that are not UTF-8 make the call panic instead of returning
ReadPanic == [tag |-> "ReadPanic"]
TomlContents == FileContents \cup {ReadPanic}

\* the file names and directories of load_config
JSON_NAME == <<"rustysd_config.json">>
TOML_NAME == <<"rustysd_config.toml">>
default_config_path_json == <<".", "config", "rustysd_config.json">>
default_config_path_toml == <<".", "config", "rustysd_config.toml">>
DefaultUnitDir == <<".", "test_units">>
DefaultNotificationsDir == <<".", "notifications">>
DefaultLogDir == <<".", "logs">>

\* the base directories a caller passes: none, "./config" or "/opt"
ConfigPaths == {None, Some(<<".", "config">>), Some(<<"", "opt">>)}

\* the file system: the directory "a" exists; the two files of ./config
\* and the directory "b" may or may not (nothing exists in /opt)
FsAlways == {UnitA}
FsMaybe == {<<"config", "rustysd_config.json">>,
            <<"config", "rustysd_config.toml">>, UnitB}

\* environment variables (name, raw value) the process may have
RUSTYSD_LOGGING_DIR ==
    <<"R", "U", "S", "T", "Y", "S", "D", "_", "L", "O", "G", "G", "I", "N",
      "G", "_", "D", "I", "R">>
rustysd_logging_dir ==
    <<"r", "u", "s", "t", "y", "s", "d", "_", "l", "o", "g", "g", "i", "n",
      "g", "_", "d", "i", "r">>
RUSTYSD_NOTIFICATIONS_DIR ==
    <<"R", "U", "S", "T", "Y", "S", "D", "_", "N", "O", "T", "I", "F", "I",
      "C", "A", "T", "I", "O", "N", "S", "_", "D", "I", "R">>
RUSTYSD_UNIT_DIRS ==
    <<"R", "U", "S", "T", "Y", "S", "D", "_", "U", "N", "I", "T", "_", "D",
      "I", "R", "S">>
RUSTYSD == <<"R", "U", "S", "T", "Y", "S", "D">>
HOME == <<"H", "O", "M", "E">>

EnvVars == {<<RUSTYSD_LOGGING_DIR, <<"", "env", "log">> >>,
            <<rustysd_logging_dir, <<"", "env", "log2">> >>,
            <<RUSTYSD_NOTIFICATIONS_DIR, <<"", "env", "notif">> >>,
            <<RUSTYSD_UNIT_DIRS, UnitB>>,
            <<RUSTYSD, <<"x">> >>,
            <<HOME, <<"", "root">> >>}

\* std::env::vars(): the variables in the order the process holds them,
\* each name once
Envs == UNION {{e \in [1..n -> EnvVars] :
                   \A i, j \in 1..n : i # j => e[i][1] # e[j][1]} :
               n \in 0..MaxEnv}

(***************************************************************************)
(* State.                                                                  *)
(***************************************************************************)
VARIABLES
    pc,             \* position in load_config ("Done": returned, "Panicked")
    config_path,    \* the argument
    fs,             \* the file system: the resolved names that exist
    settings,       \* HashMap<String, SettingValue>
    json_conf,      \* Option<Result<(), String>> of load_json
    toml_conf,      \* Option<Result<(), String>> of load_toml
    json_read,      \* what opening/decoding the JSON file gave ("none" if not read)
    toml_read,      \* the same for the TOML file
    file_unit_dirs, \* the unit_dirs array node last inserted from a file
    file_settings,  \* the settings as the files left them, before the overlay
    vars,           \* what std::env::vars() enumerated
    result          \* the returned (LoggingConfig, Result<Config, String>)

vars_all == <<pc, config_path, fs, settings, json_conf, toml_conf, json_read,
              toml_read, file_unit_dirs, file_settings, vars, result>>


(***************************************************************************)
(* load_toml / load_json: open, decode, extract.  Each returns the         *)
(* settings as the call leaves them (`settings` is a &mut argument) and    *)
(* the Result.  The `?` returns on an error before anything is inserted.   *)
(***************************************************************************)
\* the map closure over the array's elements: a string is kept, anything
\* else becomes the empty string
elem_to_setting(e) == IF e.kind = "String" THEN Str(e.s) ELSE Str(<<"">>)

elems_to_settings(elems) == [i \in 1..Len(elems) |-> elem_to_setting(elems[i])]

\* map.get(key) matched against one node kind
get_kind(map, key, kind) == key \in DOMAIN map /\ map[key].kind = kind

\* load_toml with a decode error swallowed: the call reports success
load_toml_swallow(content, settings0) ==
    IF content.tag = "OpenErr"
    THEN [settings |-> settings0,
          res |-> Err(<<"Error while opening config file: ", content.e>>)]
    ELSE IF content.tag = "DecodeErr"
    THEN [settings |-> settings0, res |-> Ok(Unit)]
    ELSE LET map == IF content.root.kind = "Table" THEN content.root.map ELSE <<>>
             s1 == IF get_kind(map, "unit_dirs", "Array")
                   THEN insert(settings0, UNIT_DIRS_KEY,
                               Array(elems_to_settings(map["unit_dirs"].elems)))
                   ELSE settings0
             s2 == IF get_kind(map, "logging_dir", "String")
                   THEN insert(s1, LOGGING_DIR_KEY, Str(map["logging_dir"].s))
                   ELSE s1
             s3 == IF get_kind(map, "notifications_dir", "String")
                   THEN insert(s2, NOTIFICATIONS_DIR_KEY, Str(map["notifications_dir"].s))
                   ELSE s2
         IN  [settings |-> s3, res |-> Ok(Unit)]

load_toml(content, settings0) ==
    IF content.tag = "OpenErr"
    THEN [settings |-> settings0,
          res |-> Err(<<"Error while opening config file: ", content.e>>)]
    ELSE IF content.tag = "DecodeErr"
    THEN [settings |-> settings0,
          res |-> Err(<<"Error while decoding config json: ", content.e>>)]
    ELSE LET toml_conf_v == content.root
         IN  IF toml_conf_v.kind = "Table"
             THEN LET map == toml_conf_v.map
                      s1 == IF get_kind(map, "unit_dirs", "Array")
                            THEN insert(settings0, UNIT_DIRS_KEY,
                                        Array(elems_to_settings(map["unit_dirs"].elems)))
                            ELSE settings0
                      s2 == IF get_kind(map, "logging_dir", "String")
                            THEN insert(s1, LOGGING_DIR_KEY, Str(map["logging_dir"].s))
                            ELSE s1
                      s3 == IF get_kind(map, "notifications_dir", "String")
                            THEN insert(s2, NOTIFICATIONS_DIR_KEY,
                                        Str(map["notifications_dir"].s))
                            ELSE s2
                  IN  [settings |-> s3, res |-> Ok(Unit)]
             ELSE [settings |-> settings0, res |-> Ok(Unit)]

load_json(content, settings0) ==
    IF content.tag = "OpenErr"
    THEN [settings |-> settings0,
          res |-> Err(<<"Error while opening config file: ", content.e>>)]
    ELSE IF content.tag = "DecodeErr"
    THEN [settings |-> settings0,
          res |-> Err(<<"Error while decoding config json: ", content.e>>)]
    ELSE LET json_conf_v == content.root
         IN  IF json_conf_v.kind = "Table"
             THEN LET map == json_conf_v.map
                      s1 == IF get_kind(map, "unit_dirs", "Array")
                            THEN insert(settings0, UNIT_DIRS_KEY,
                                        Array(elems_to_settings(map["unit_dirs"].elems)))
                            ELSE settings0
                      s2 == IF get_kind(map, "logging_dir", "String")
                            THEN insert(s1, LOGGING_DIR_KEY, Str(map["logging_dir"].s))
                            ELSE s1
                      s3 == IF get_kind(map, "notifications_dir", "String")
                            THEN insert(s2, NOTIFICATIONS_DIR_KEY,
                                        Str(map["notifications_dir"].s))
                            ELSE s2
                  IN  [settings |-> s3, res |-> Ok(Unit)]
             ELSE [settings |-> settings0, res |-> Ok(Unit)]

\* the unit_dirs array node a file's document holds, if the extraction
\* takes it
doc_unit_dirs(content, before) ==
    IF content.tag = "Doc" /\ content.root.kind = "Table"
       /\ get_kind(content.root.map, "unit_dirs", "Array")
    THEN content.root.map["unit_dirs"]
    ELSE before

kind_read(content) == content.tag

(***************************************************************************)
(* load_config, piece by piece.                                            *)
(***************************************************************************)
\* lines 118-128: the two candidate paths
config_path_json(cp) ==
    IF cp.tag = "Some" THEN path_join(cp.v, JSON_NAME) ELSE default_config_path_json

config_path_toml(cp) ==
    IF cp.tag = "Some" THEN path_join(cp.v, TOML_NAME) ELSE default_config_path_toml

\* new_key_of without the lower-casing of the pieces
new_key_of_raw(key) == split(key, "_")

\* line 143: the name split at '_', each piece lower-cased
new_key_of(key) ==
    LET pieces == split(key, "_")
    IN  [i \in 1..Len(pieces) |-> to_lowercase(pieces[i])]

\* lines 146-147: the first piece dropped, the rest joined with "."
joined_key(new_key) == join(remove_first(new_key), ".")

\* the two computations above for every name of EnvVars, evaluated once
EnvNames == {v[1] : v \in EnvVars}
NewKeys == [k \in EnvNames |-> new_key_of(k)]
JoinedKeys == [k \in EnvNames |-> joined_key(NewKeys[k])]

\* overlay_var that keeps an entry the settings already hold
overlay_var_keep(s, key, value) ==
    IF NewKeys[key][1] = PREFIX /\ JoinedKeys[key] \notin DOMAIN s
    THEN insert(s, JoinedKeys[key], Str(value))
    ELSE s

\* lines 143-149: one environment variable
overlay_var(s, key, value) ==
    IF NewKeys[key][1] = PREFIX
    THEN insert(s, JoinedKeys[key], Str(value))
    ELSE s

\* line 142: for_each over the variables, in their order
RECURSIVE overlay(_, _)
overlay(s, vs) ==
    IF vs = <<>> THEN s
    ELSE overlay(overlay_var(s, vs[1][1], vs[1][2]), Tail(vs))

\* lines 152-155 and 157-160: Option<Option<PathBuf>> of a scalar setting
scalar_dir(s, key) ==
    IF key \in DOMAIN s
    THEN Some(IF s[key].tag = "Str" THEN Some(PathFrom(s[key].s)) ELSE None)
    ELSE None

\* fold_existing that drops an entry it has already kept
RECURSIVE fold_existing_dedup(_, _, _)
fold_existing_dedup(arr, acc, disk) ==
    IF arr = <<>> THEN acc
    ELSE LET el == IF arr[1].tag = "Str" THEN Some(PathFrom(arr[1].s)) ELSE None
             seen == el.tag = "Some" /\ \E i \in 1..Len(acc) : acc[i] = el.v
             acc1 == IF el.tag = "Some" /\ path_exists(el.v, disk) /\ ~seen
                     THEN Append(acc, el.v) ELSE acc
         IN  fold_existing_dedup(Tail(arr), acc1, disk)

\* lines 164-181: the array case, a map then a fold that keeps what exists
RECURSIVE fold_existing(_, _, _)
fold_existing(arr, acc, disk) ==
    IF arr = <<>> THEN acc
    ELSE LET el == IF arr[1].tag = "Str" THEN Some(PathFrom(arr[1].s)) ELSE None
             acc1 == IF el.tag = "Some" /\ path_exists(el.v, disk)
                     THEN Append(acc, el.v) ELSE acc
         IN  fold_existing(Tail(arr), acc1, disk)

\* unit_dirs_of with the existence check applied to the scalar case too
unit_dirs_of_filter_scalar(s, disk) ==
    IF UNIT_DIRS_KEY \in DOMAIN s
    THEN Some(IF s[UNIT_DIRS_KEY].tag = "Str"
              THEN fold_existing(<<s[UNIT_DIRS_KEY]>>, <<>>, disk)
              ELSE fold_existing(s[UNIT_DIRS_KEY].arr, <<>>, disk))
    ELSE None

\* lines 162-182: Option<Vec<PathBuf>>
unit_dirs_of(s, disk) ==
    IF UNIT_DIRS_KEY \in DOMAIN s
    THEN Some(IF s[UNIT_DIRS_KEY].tag = "Str"
              THEN <<PathFrom(s[UNIT_DIRS_KEY].s)>>
              ELSE fold_existing(s[UNIT_DIRS_KEY].arr, <<>>, disk))
    ELSE None

\* lines 186-192: struct Config
build_config(s, disk) ==
    [unit_dirs |-> unwrap_or_else(unit_dirs_of(s, disk), <<DefaultUnitDir>>),
     notification_sockets_dir |->
        unwrap_or_else(
            unwrap_or_else(scalar_dir(s, NOTIFICATIONS_DIR_KEY),
                           Some(DefaultNotificationsDir)),
            DefaultNotificationsDir)]

\* build_conf that reports a file's own error before looking for a conflict
build_conf_error_first(jc, tc, config, cp_toml) ==
    IF jc.tag = "Some" /\ jc.v.tag = "Err" THEN Err(jc.v.e)
    ELSE IF tc.tag = "Some" /\ tc.v.tag = "Err" THEN Err(tc.v.e)
    ELSE IF jc.tag = "Some" /\ tc.tag = "Some"
         THEN Err(<<"Found both json and toml conf!">>)
    ELSE IF jc.tag = "Some" \/ tc.tag = "Some" THEN Ok(config)
    ELSE IF path_eq(cp_toml, default_config_path_toml)
         THEN Ok(config)
         ELSE Err(<<"No config file was loaded">>)

\* build_conf that compares the TOML candidate with the JSON default path
build_conf_wrong_default(jc, tc, config, cp_toml) ==
    IF jc.tag = "Some"
    THEN IF tc.tag = "Some"
         THEN Err(<<"Found both json and toml conf!">>)
         ELSE IF jc.v.tag = "Err" THEN Err(jc.v.e) ELSE Ok(config)
    ELSE IF tc.tag = "Some"
         THEN IF tc.v.tag = "Err" THEN Err(tc.v.e) ELSE Ok(config)
         ELSE IF path_eq(cp_toml, default_config_path_json)
              THEN Ok(config)
              ELSE Err(<<"No config file was loaded">>)

\* lines 194-215: Result<Config, String>
build_conf(jc, tc, config, cp_toml) ==
    IF jc.tag = "Some"
    THEN IF tc.tag = "Some"
         THEN Err(<<"Found both json and toml conf!">>)
         ELSE IF jc.v.tag = "Err" THEN Err(jc.v.e) ELSE Ok(config)
    ELSE IF tc.tag = "Some"
         THEN IF tc.v.tag = "Err" THEN Err(tc.v.e) ELSE Ok(config)
         ELSE IF path_eq(cp_toml, default_config_path_toml)
              THEN Ok(config)
              ELSE Err(<<"No config file was loaded">>)

\* build_logging_config that reads the notifications.dir setting
build_logging_config_wrong_key(s) ==
    [log_dir |-> unwrap_or_else(
                    unwrap_or_else(scalar_dir(s, NOTIFICATIONS_DIR_KEY),
                                   Some(DefaultLogDir)),
                    DefaultLogDir)]

\* lines 217-222: struct LoggingConfig
build_logging_config(s) ==
    [log_dir |-> unwrap_or_else(
                    unwrap_or_else(scalar_dir(s, LOGGING_DIR_KEY), Some(DefaultLogDir)),
                    DefaultLogDir)]

(***************************************************************************)
(* The state machine of one call.                                          *)
(***************************************************************************)
Init ==
    /\ pc = "CheckJson"
    /\ config_path \in ConfigPaths
    /\ fs \in {FsAlways \cup m : m \in SUBSET FsMaybe}
    /\ settings = EmptyMap
    /\ json_conf = None
    /\ toml_conf = None
    /\ json_read = "none"
    /\ toml_read = "none"
    /\ file_unit_dirs = Absent
    /\ file_settings = EmptyMap
    /\ vars = <<>>
    /\ result = None

\* lines 130-134
CheckJson ==
    /\ pc = "CheckJson"
    /\ pc' = "CheckToml"
    /\ IF path_exists(config_path_json(config_path), fs)
       THEN \E content \in FileContents :
               LET r == load_json(content, settings)
               IN  /\ settings' = r.settings
                   /\ json_conf' = Some(r.res)
                   /\ json_read' = kind_read(content)
                   /\ file_unit_dirs' = doc_unit_dirs(content, file_unit_dirs)
       ELSE /\ json_conf' = None
            /\ UNCHANGED <<settings, json_read, file_unit_dirs>>
    /\ UNCHANGED <<config_path, fs, toml_conf, toml_read, file_settings, vars, result>>

\* lines 136-140
CheckToml ==
    /\ pc = "CheckToml"
    /\ IF path_exists(config_path_toml(config_path), fs)
       THEN \E content \in TomlContents :
               IF content = ReadPanic
               THEN /\ pc' = "Panicked"
                    /\ toml_read' = kind_read(content)
                    /\ UNCHANGED <<settings, file_settings, toml_conf, file_unit_dirs>>
               ELSE LET r == load_toml(content, settings)
                    IN  /\ pc' = "Overlay"
                        /\ settings' = r.settings
                        /\ file_settings' = r.settings
                        /\ toml_conf' = Some(r.res)
                        /\ toml_read' = kind_read(content)
                        /\ file_unit_dirs' = doc_unit_dirs(content, file_unit_dirs)
       ELSE /\ pc' = "Overlay"
            /\ toml_conf' = None
            /\ file_settings' = settings
            /\ UNCHANGED <<settings, toml_read, file_unit_dirs>>
    /\ UNCHANGED <<config_path, fs, json_conf, json_read, vars, result>>

\* line 142: std::env::vars() panics on a variable that is not Unicode
EnvPanic ==
    /\ pc = "Overlay"
    /\ pc' = "Panicked"
    /\ UNCHANGED <<config_path, fs, settings, json_conf, toml_conf, json_read,
                   toml_read, file_unit_dirs, file_settings, vars, result>>

\* lines 142-224: the overlay, then the defaults and the returned pair
OverlayAndReturn ==
    /\ pc = "Overlay"
    /\ pc' = "Done"
    /\ \E e \in Envs :
          LET s == overlay(settings, e)
              config == build_config(s, fs)
              conf == build_conf(json_conf, toml_conf, config,
                                 config_path_toml(config_path))
          IN  /\ vars' = e
              /\ settings' = s
              /\ result' = Some([logging |-> build_logging_config(s),
                                  config |-> config,
                                  conf |-> conf])
    /\ UNCHANGED <<config_path, fs, json_conf, toml_conf, json_read, toml_read,
                   file_unit_dirs, file_settings>>

Next == CheckJson \/ CheckToml \/ EnvPanic \/ OverlayAndReturn

Spec == Init /\ [][Next]_vars_all


(***************************************************************************)
(* Vocabulary of the properties.                                           *)
(***************************************************************************)
Done == pc = "Done"
Returned == result.v
JsonExists == path_exists(config_path_json(config_path), fs)
TomlExists == path_exists(config_path_toml(config_path), fs)
Failed(read) == read \in {"OpenErr", "DecodeErr"}

ConflictError == Err(<<"Found both json and toml conf!">>)
MissingError == Err(<<"No config file was loaded">>)
OpenError == Err(<<"Error while opening config file: ", "Permission denied">>)
DecodeError == Err(<<"Error while decoding config json: ", "expected value">>)

\* What the overlay is to do with a variable name, stated on the name's
\* characters: the part before the first '_' (the whole name if there is
\* none) is the prefix; the part after it, lower-cased and with every '_'
\* turned into '.', is the key.
HasSep(name) == \E i \in 1..Len(name) : name[i] = "_"
FirstSep(name) ==
    IF HasSep(name)
    THEN CHOOSE i \in 1..Len(name) :
            name[i] = "_" /\ \A j \in 1..(i - 1) : name[j] # "_"
    ELSE Len(name) + 1
HeadOf(name) == SubSeq(name, 1, FirstSep(name) - 1)
RestOf(name) == SubSeq(name, FirstSep(name) + 1, Len(name))
MatchesPrefix(name) ==
    /\ Len(HeadOf(name)) = Len(PREFIX)
    /\ \A i \in 1..Len(PREFIX) : lower_char(HeadOf(name)[i]) = PREFIX[i]
KeyFor(name) ==
    [i \in 1..Len(RestOf(name)) |->
        IF RestOf(name)[i] = "_" THEN "." ELSE lower_char(RestOf(name)[i])]
Matching == [n \in EnvNames |-> MatchesPrefix(n)]
KeyOfName == [n \in EnvNames |-> KeyFor(n)]
Underscored == [n \in EnvNames |-> HasSep(n)]

\* the positions of `vars` whose variable names the setting k
Setters(k) == {i \in 1..Len(vars) : Matching[vars[i][1]] /\ KeyOfName[vars[i][1]] = k}
Overridden(k) == Setters(k) # {}
LastSetter(k) == CHOOSE i \in Setters(k) : \A j \in Setters(k) : j <= i
EnvValue(k) == vars[LastSetter(k)][2]
IsSet(name) == \E i \in 1..Len(vars) : vars[i][1] = name
ValueOf(name) == vars[CHOOSE i \in 1..Len(vars) : vars[i][1] = name][2]

(***************************************************************************)
(* C1.  Whenever both candidate files exist, the Config result is the      *)
(* conflicting-sources error, whatever the two decodes gave and whatever   *)
(* the environment holds: never Ok, never a decode or open error.          *)
(***************************************************************************)
C1_BothFilesConflict ==
    (Done /\ JsonExists /\ TomlExists) => Returned.conf = ConflictError

\* both files exist, the JSON one decodes, the TOML one does not
C1_Witness ==
    /\ Done /\ JsonExists /\ TomlExists
    /\ json_read = "Doc" /\ toml_read = "DecodeErr"
    /\ vars # <<>>
    /\ Returned.conf = ConflictError

(***************************************************************************)
(* C2.  Every Config returned as Ok has a non-empty unit_dirs; when the    *)
(* unit.dirs setting is absent, or is a list none of whose entries exists  *)
(* (the empty list included), unit_dirs is the default [./test_units].     *)
(***************************************************************************)
NoEntryExists(arr) ==
    \A i \in 1..Len(arr) : ~(arr[i].tag = "Str" /\ path_exists(arr[i].s, fs))

C2_UnitDirsNonEmpty ==
    (Done /\ Returned.conf.tag = "Ok") =>
        /\ Len(Returned.conf.v.unit_dirs) > 0
        /\ (UNIT_DIRS_KEY \notin DOMAIN settings
            \/ (settings[UNIT_DIRS_KEY].tag = "Array"
                /\ NoEntryExists(settings[UNIT_DIRS_KEY].arr)))
           => Returned.conf.v.unit_dirs = <<DefaultUnitDir>>

(***************************************************************************)
(* C3.  With an explicit base directory (config_path is Some) in which     *)
(* neither candidate file exists, the Config result is the missing-config  *)
(* error, whatever the directory, ./config included.                       *)
(***************************************************************************)
C3_ExplicitDirMissingFails ==
    (Done /\ config_path.tag = "Some" /\ ~JsonExists /\ ~TomlExists)
        => Returned.conf = MissingError

(***************************************************************************)
(* C4.  As claimed: with no base directory and neither default file, the   *)
(* result is Ok and unit_dirs, notification_sockets_dir and log_dir are    *)
(* the fixed defaults.                                                     *)
(***************************************************************************)
C4_NoFilesAllDefaults ==
    (Done /\ config_path = None /\ ~JsonExists /\ ~TomlExists) =>
        /\ Returned.conf = Ok([unit_dirs |-> <<DefaultUnitDir>>,
                               notification_sockets_dir |-> DefaultNotificationsDir])
        /\ Returned.logging.log_dir = DefaultLogDir

(***************************************************************************)
(* C4, amended.  With no base directory and neither default file, the      *)
(* result is Ok, and each of the three fields is its fixed default unless  *)
(* an environment variable names its setting, in which case it is that     *)
(* variable's value.                                                       *)
(***************************************************************************)
C4_NoFilesDefaultsUnlessEnv ==
    (Done /\ config_path = None /\ ~JsonExists /\ ~TomlExists) =>
        /\ Returned.conf.tag = "Ok"
        /\ Returned.conf.v.unit_dirs =
              IF Overridden(UNIT_DIRS_KEY) THEN <<EnvValue(UNIT_DIRS_KEY)>>
              ELSE <<DefaultUnitDir>>
        /\ Returned.conf.v.notification_sockets_dir =
              IF Overridden(NOTIFICATIONS_DIR_KEY) THEN EnvValue(NOTIFICATIONS_DIR_KEY)
              ELSE DefaultNotificationsDir
        /\ Returned.logging.log_dir =
              IF Overridden(LOGGING_DIR_KEY) THEN EnvValue(LOGGING_DIR_KEY)
              ELSE DefaultLogDir

\* no argument, no file, an environment that names none of the settings
C4_Witness ==
    /\ Done /\ config_path = None /\ ~JsonExists /\ ~TomlExists
    /\ IsSet(HOME)
    /\ Returned.conf = Ok([unit_dirs |-> <<DefaultUnitDir>>,
                           notification_sockets_dir |-> DefaultNotificationsDir])
    /\ Returned.logging.log_dir = DefaultLogDir

(***************************************************************************)
(* C5.  As claimed: whenever RUSTYSD_LOGGING_DIR (resp.                    *)
(* RUSTYSD_NOTIFICATIONS_DIR) is set, log_dir (resp.                       *)
(* notification_sockets_dir) is that variable's raw value.                 *)
(***************************************************************************)
C5_EnvVarWins ==
    Done =>
        /\ IsSet(RUSTYSD_LOGGING_DIR)
              => Returned.logging.log_dir = ValueOf(RUSTYSD_LOGGING_DIR)
        /\ IsSet(RUSTYSD_NOTIFICATIONS_DIR)
              => Returned.config.notification_sockets_dir
                    = ValueOf(RUSTYSD_NOTIFICATIONS_DIR)

(***************************************************************************)
(* C5, amended.  Whenever some environment variable names logging.dir      *)
(* (resp. notifications.dir), log_dir (resp. notification_sockets_dir) is  *)
(* the raw value of the last such variable in enumeration order, whatever  *)
(* the files hold; it is RUSTYSD_LOGGING_DIR's value when no variable      *)
(* enumerated after it names the same setting.                             *)
(***************************************************************************)
NoLaterSetter(name, k) ==
    \A i \in Setters(k) : \A j \in 1..Len(vars) : vars[j][1] = name => i <= j

C5_LastEnvVarWins ==
    Done =>
        /\ Overridden(LOGGING_DIR_KEY)
              => Returned.logging.log_dir = EnvValue(LOGGING_DIR_KEY)
        /\ Overridden(NOTIFICATIONS_DIR_KEY)
              => Returned.config.notification_sockets_dir
                    = EnvValue(NOTIFICATIONS_DIR_KEY)
        /\ (IsSet(RUSTYSD_LOGGING_DIR)
            /\ NoLaterSetter(RUSTYSD_LOGGING_DIR, LOGGING_DIR_KEY))
              => Returned.logging.log_dir = ValueOf(RUSTYSD_LOGGING_DIR)
        /\ (IsSet(RUSTYSD_NOTIFICATIONS_DIR)
            /\ NoLaterSetter(RUSTYSD_NOTIFICATIONS_DIR, NOTIFICATIONS_DIR_KEY))
              => Returned.config.notification_sockets_dir
                    = ValueOf(RUSTYSD_NOTIFICATIONS_DIR)

\* a file set both directories and the environment overrode both
C5_Witness ==
    /\ Done
    /\ LOGGING_DIR_KEY \in DOMAIN file_settings
    /\ NOTIFICATIONS_DIR_KEY \in DOMAIN file_settings
    /\ IsSet(RUSTYSD_LOGGING_DIR) /\ IsSet(RUSTYSD_NOTIFICATIONS_DIR)
    /\ Returned.conf.tag = "Ok"
    /\ Returned.logging.log_dir = ValueOf(RUSTYSD_LOGGING_DIR)
    /\ Returned.logging.log_dir # file_settings[LOGGING_DIR_KEY].s
    /\ Returned.conf.v.notification_sockets_dir = ValueOf(RUSTYSD_NOTIFICATIONS_DIR)

(***************************************************************************)
(* C6.  A LoggingConfig is returned in every outcome, and its log_dir is   *)
(* the logging.dir setting when the settings hold it as a scalar and       *)
(* ./logs otherwise, whether the Config result is Ok or an error.          *)
(***************************************************************************)
C6_LoggingConfigAlways ==
    Done =>
        /\ result.tag = "Some"
        /\ Returned.logging.log_dir =
              IF LOGGING_DIR_KEY \in DOMAIN settings
                 /\ settings[LOGGING_DIR_KEY].tag = "Str"
              THEN settings[LOGGING_DIR_KEY].s
              ELSE DefaultLogDir

\* the Config result is the conflict error and log_dir is the file's value
C6_Witness ==
    /\ Done
    /\ Returned.conf = ConflictError
    /\ Returned.logging.log_dir = FileLogDir

(***************************************************************************)
(* C7.  When exactly one candidate file exists, the Config result is an    *)
(* error exactly when opening or decoding that file failed, and then it is *)
(* that file's error; otherwise it is Ok.  The same for the JSON file      *)
(* alone and for the TOML file alone.  A failed load inserts nothing into  *)
(* the settings.                                                           *)
(***************************************************************************)
OutcomeOf(read) ==
    IF read = "OpenErr" THEN OpenError
    ELSE IF read = "DecodeErr" THEN DecodeError
    ELSE Ok(Returned.config)

C7_SingleFileOutcome ==
    /\ (Done /\ JsonExists /\ ~TomlExists) => Returned.conf = OutcomeOf(json_read)
    /\ (Done /\ TomlExists /\ ~JsonExists) => Returned.conf = OutcomeOf(toml_read)
    /\ (pc = "CheckToml" /\ Failed(json_read)) => settings = EmptyMap
    /\ (pc = "Overlay" /\ Failed(toml_read) /\ (json_read = "none" \/ Failed(json_read)))
          => settings = EmptyMap

\* only the TOML file exists and it does not decode
C7_Witness ==
    /\ Done /\ TomlExists /\ ~JsonExists
    /\ toml_read = "DecodeErr"
    /\ Returned.conf = DecodeError
    /\ file_settings = EmptyMap

(***************************************************************************)
(* C8.  When unit.dirs comes from a file's unit_dirs array and no          *)
(* environment variable names unit.dirs, Config.unit_dirs is exactly the   *)
(* array's string entries that exist on disk, in the array's order, with   *)
(* repetitions kept; an entry that is not a string never appears.          *)
(***************************************************************************)
IsExistingString(e) == e.kind = "String" /\ path_exists(e.s, fs)
ExistingEntries(elems) ==
    LET kept == SelectSeq(elems, IsExistingString)
    IN  [i \in 1..Len(kept) |-> kept[i].s]

C8_UnitDirsFromFile ==
    (Done /\ file_unit_dirs # Absent /\ ~Overridden(UNIT_DIRS_KEY)) =>
        /\ Returned.config.unit_dirs = ExistingEntries(file_unit_dirs.elems)
        /\ \A i \in 1..Len(Returned.config.unit_dirs) :
              Returned.config.unit_dirs[i] # <<"">>

\* two existing directories, returned in the order the file lists them
C8_Witness ==
    /\ Done /\ ~Overridden(UNIT_DIRS_KEY)
    /\ file_unit_dirs = ArrayNode(<<StringNode(UnitB), StringNode(UnitA)>>)
    /\ UnitB \in fs
    /\ Returned.conf.tag = "Ok"
    /\ Returned.conf.v.unit_dirs = <<UnitB, UnitA>>

(***************************************************************************)
(* C9.  As claimed: the overlay inserts an entry for exactly the variables *)
(* whose lower-cased first segment is "rustysd", under the remaining       *)
(* segments lower-cased and joined with ".", the raw value as a scalar;    *)
(* a variable whose name has no underscore (RUSTYSD itself included)       *)
(* inserts nothing.                                                        *)
(***************************************************************************)
SettersWithSep(k) == {i \in Setters(k) : Underscored[vars[i][1]]}
LastSetterWithSep(k) ==
    CHOOSE i \in SettersWithSep(k) : \A j \in SettersWithSep(k) : j <= i
KeysSetWithSep ==
    {KeyOfName[vars[i][1]] :
        i \in {j \in 1..Len(vars) : Matching[vars[j][1]] /\ Underscored[vars[j][1]]}}

C9_OverlayNoUnderscoreSkipped ==
    Done =>
        /\ DOMAIN settings = (DOMAIN file_settings) \cup KeysSetWithSep
        /\ \A k \in DOMAIN settings :
              settings[k] = IF SettersWithSep(k) # {}
                            THEN Str(vars[LastSetterWithSep(k)][2])
                            ELSE file_settings[k]

(***************************************************************************)
(* C9, amended.  The overlay inserts an entry for exactly the variables    *)
(* whose lower-cased first segment is "rustysd", under the remaining       *)
(* segments lower-cased and joined with "." (the last such variable of a   *)
(* key gives its value), the raw value as a scalar.  A name without an     *)
(* underscore inserts nothing unless it is "rustysd" in some letter case,  *)
(* which inserts its value under the empty key.                            *)
(***************************************************************************)
KeysSet ==
    {KeyOfName[vars[i][1]] : i \in {j \in 1..Len(vars) : Matching[vars[j][1]]}}

C9_OverlayByPrefix ==
    Done =>
        /\ DOMAIN settings = (DOMAIN file_settings) \cup KeysSet
        /\ \A k \in DOMAIN settings :
              settings[k] = IF Overridden(k) THEN Str(EnvValue(k))
                            ELSE file_settings[k]
        /\ IsSet(RUSTYSD) => settings[<<>>] = Str(ValueOf(RUSTYSD))
        /\ (\A i \in 1..Len(vars) : vars[i][1] = HOME) => settings = file_settings

\* RUSTYSD and HOME are set: one entry, under the empty key
C9_Witness ==
    /\ Done
    /\ IsSet(RUSTYSD) /\ IsSet(HOME)
    /\ file_settings = EmptyMap
    /\ DOMAIN settings = {<<>>}

(***************************************************************************)
(* C10.  When the settings hold unit.dirs as a scalar (a variable named    *)
(* it; the scalar replaces a file's list), Config.unit_dirs is the single  *)
(* entry with that value, kept even if no such path exists.                *)
(***************************************************************************)
C10_ScalarUnitDirsUnfiltered ==
    Done =>
        /\ (UNIT_DIRS_KEY \in DOMAIN settings /\ settings[UNIT_DIRS_KEY].tag = "Str")
              => Returned.config.unit_dirs = <<PathFrom(settings[UNIT_DIRS_KEY].s)>>
        /\ Overridden(UNIT_DIRS_KEY)
              => settings[UNIT_DIRS_KEY] = Str(EnvValue(UNIT_DIRS_KEY))

\* the directory does not exist; the file listed it and the variable names it
C10_Witness ==
    /\ Done
    /\ UnitB \notin fs
    /\ file_unit_dirs = ArrayNode(<<StringNode(UnitA), StringNode(UnitB)>>)
    /\ IsSet(RUSTYSD_UNIT_DIRS)
    /\ Returned.conf.tag = "Ok"
    /\ Returned.conf.v.unit_dirs = <<UnitB>>

=============================================================================
